---- MODULE Spec2Model ----
(***************************************************************************)
(* Massimo: the centre-of-mass node (plug-ins/massimo_runtime.py) and the  *)
(* section / influence registry with its process-wide section cache        *)
(* (scripts/massimo/core.py).                                              *)
(*                                                                         *)
(* Floats are modelled as exact rationals <<n, d>> (d > 0, lowest terms);  *)
(* a division by zero is the Python ZeroDivisionError and is carried as a  *)
(* failed result.                                                          *)
(***************************************************************************)
EXTENDS Integers, Sequences, FiniteSets, TLC

VARIABLES
    \* ---- host scene: the CenterOfMass nodes and their `inputs` multi attribute
    scene,           \* the mass nodes created so far -> name and settings
    inputs,          \* inputs[node]: the sparse multi attribute, index -> element
    \* ---- MassimoCache (class attributes, one per process)
    sectionIndices,  \* MassimoCache._SECTION_INDICES: a dict, node -> list
    cacheIsDirty,    \* MassimoCache._SECTION_CACHE_IS_DIRTY
    \* ---- the .mass file written by serialise(), NoFile before
    file,
    \* ---- the call made last: function, node, arguments, returned value
    lastCall,
    \* ---- the data block of one CenterOfMass node, as compute() sees it
    elements,        \* physical elements of `inputs`: mass, consider, positions
    calculate,       \* the calculate plug
    translate,       \* the output plugs translateX / Y / Z
    clean,           \* whether the data block holds translateX / Y / Z as clean
    computed,        \* what the last compute() did: none, ignored, skipped, raised, set
    \* ---- the MassimoWidget instances and the script jobs of the host
    scriptJobIDs,    \* widget -> self.scriptJobIDs, for the widgets constructed
    scriptJobs,      \* the host's live script jobs: job number -> event and callback owner
    nextJob          \* the job number the host gives out next

vars == <<scene, inputs, sectionIndices, cacheIsDirty, file, lastCall,
          elements, calculate, translate, clean, computed,
          scriptJobIDs, scriptJobs, nextJob>>

registryVars == <<scene, inputs, sectionIndices, cacheIsDirty, file, lastCall>>
computeVars == <<elements, calculate, translate, clean, computed>>
widgetVars == <<scriptJobIDs, scriptJobs, nextJob>>

----------------------------------------------------------------------------
(* Bounds of the model *)

MaxElems == 3        \* elements of `inputs` seen by one compute()
MaxPoints == 2       \* influences connected to one element seen by compute()
MaxSections == 2     \* section indices 0 .. MaxSections-1
MaxSlots == 2        \* pointsOfBounds indices 0 .. MaxSlots-1
MaxJobs == 10        \* script-job numbers the host gives out in a session

----------------------------------------------------------------------------
(* Exact rationals standing for Python floats *)

Abs(n) == IF n < 0 THEN -n ELSE n

RECURSIVE Gcd(_, _)
Gcd(a, b) == IF b = 0 THEN a ELSE Gcd(b, a % b)

\* n / d in lowest terms with a positive denominator (d # 0)
Rat(n, d) ==
    LET g == Gcd(Abs(n), Abs(d))
        s == IF d < 0 THEN -1 ELSE 1
    IN  <<(s * n) \div g, (s * d) \div g>>

RInt(n) == <<n, 1>>
RAdd(a, b) == Rat(a[1] * b[2] + b[1] * a[2], a[2] * b[2])
RSub(a, b) == Rat(a[1] * b[2] - b[1] * a[2], a[2] * b[2])
RMul(a, b) == Rat(a[1] * b[1], a[2] * b[2])
\* a / b, for b # 0
RDiv(a, b) == Rat(a[1] * b[2], a[2] * b[1])

Origin == <<RInt(0), RInt(0), RInt(0)>>

----------------------------------------------------------------------------
(* CenterOfMassNode: plug-ins/massimo_runtime.py *)

NoLocation == <<>>                \* current_location = None

\* the world position carried by the k-th influence matrix ([12:15] of the matrix)
Point(k) == <<RInt(2 * k), RInt(k * k), RInt(0 - k)>>

Masses == {0 - 1, 0, 1, 2}

\* the position lists an element can carry: the first k influence positions
PositionLists == {[j \in 1..k |-> Point(j)] : k \in 0..MaxPoints}

Element == [mass : Masses, consider : BOOLEAN, positions : PositionLists]

RECURSIVE ElementLists(_)
ElementLists(n) ==
    IF n = 0 THEN {<<>>}
    ELSE ElementLists(n - 1) \cup
         {Append(l, e) : l \in {q \in ElementLists(n - 1) : Len(q) = n - 1}, e \in Element}

OutputPlugs == {"translateX", "translateY", "translateZ", "centerOfMass"}
Plugs == OutputPlugs \cup {"sphereSize"}

VecAdd(a, b) == <<RAdd(a[1], b[1]), RAdd(a[2], b[2]), RAdd(a[3], b[3])>>

\* the loop of center(): the first position is taken, the others are added
RECURSIVE SumPositions(_, _)
SumPositions(positions, result) ==
    IF positions = <<>> THEN result
    ELSE SumPositions(Tail(positions),
                      IF result = NoLocation THEN Head(positions)
                      ELSE VecAdd(result, Head(positions)))

center_undivided(positions) ==
    IF positions = <<>> THEN Origin
    ELSE SumPositions(positions, NoLocation)

center(positions) ==
    IF positions = <<>> THEN Origin
    ELSE LET result == SumPositions(positions, NoLocation)
             n == RInt(Len(positions))
         IN  <<RDiv(result[1], n), RDiv(result[2], n), RDiv(result[3], n)>>

lerp_float_wrong(a, b, percent) == RAdd(RMul(RSub(b, a), percent), b)

lerp_float_past_target(a, b, percent) ==
    RAdd(RMul(RSub(b, a), RAdd(percent, RInt(1))), a)

lerp_float(a, b, percent) == RAdd(RMul(RSub(b, a), percent), a)

lerp_vector_swapped(a, b, percent) ==
    <<lerp_float(b[1], a[1], percent),
      lerp_float(b[2], a[2], percent),
      lerp_float(b[3], a[3], percent)>>

lerp_vector(a, b, percent) ==
    <<lerp_float(a[1], b[1], percent),
      lerp_float(a[2], b[2], percent),
      lerp_float(a[3], b[3], percent)>>

RECURSIVE collate_skips_unconnected(_)
collate_skips_unconnected(elems) ==
    IF elems = <<>> THEN <<>>
    ELSE LET e == Head(elems)
         IN  IF e.mass = 0 \/ ~e.consider \/ e.positions = <<>>
             THEN collate_skips_unconnected(Tail(elems))
             ELSE <<[mass |-> e.mass, location |-> center(e.positions)]>>
                  \o collate_skips_unconnected(Tail(elems))

\* the collation loop of compute(): elements with mass 0.0 or not considered
\* are skipped, the others give [weighting, center(positions)]
RECURSIVE collate(_)
collate(elems) ==
    IF elems = <<>> THEN <<>>
    ELSE LET e == Head(elems)
         IN  IF e.mass = 0 \/ ~e.consider
             THEN collate(Tail(elems))
             ELSE <<[mass |-> e.mass, location |-> center(e.positions)]>>
                  \o collate(Tail(elems))

\* sorted(collated_data, key=lambda v: v[0]): a stable ascending sort
RECURSIVE InsertByMass(_, _)
InsertByMass(sortedSeq, item) ==
    IF sortedSeq = <<>> THEN <<item>>
    ELSE IF Head(sortedSeq).mass <= item.mass
         THEN <<Head(sortedSeq)>> \o InsertByMass(Tail(sortedSeq), item)
         ELSE <<item>> \o sortedSeq

RECURSIVE sorted(_)
sorted(data) ==
    IF data = <<>> THEN <<>>
    ELSE InsertByMass(sorted(SubSeq(data, 1, Len(data) - 1)), data[Len(data)])

\* the running-mass loop of compute(); raised is the ZeroDivisionError of
\* mass / running_mass
RECURSIVE blend(_, _, _)
blend(data, running_mass, current_location) ==
    IF data = <<>> THEN [raised |-> FALSE, location |-> current_location]
    ELSE LET mass == Head(data).mass
             location == Head(data).location
             running == running_mass + mass
         IN  IF current_location = NoLocation
             THEN blend(Tail(data), running, location)
             ELSE IF running = 0
                  THEN [raised |-> TRUE, location |-> current_location]
                  ELSE blend(Tail(data), running,
                             lerp_vector(current_location, location, Rat(mass, running)))

center_of_mass_without_default(elems) ==
    LET r == blend(sorted(collate(elems)), 0, NoLocation)
    IN  IF r.raised THEN r
        ELSE IF r.location = NoLocation
             THEN [raised |-> FALSE, location |-> Point(1)]
             ELSE r

\* compute(plug, data), up to the point of setting the outputs
center_of_mass(elems) ==
    LET r == blend(sorted(collate(elems)), 0, NoLocation)
    IN  IF r.raised THEN r
        ELSE IF r.location = NoLocation
             THEN [raised |-> FALSE, location |-> Origin]
             ELSE r

Compute_ignores_calculate(plug) ==
    /\ computed' = IF plug \notin OutputPlugs THEN "ignored"
                   ELSE IF center_of_mass(elements).raised THEN "raised"
                   ELSE "set"
    /\ translate' = IF plug \in OutputPlugs /\ ~center_of_mass(elements).raised
                    THEN center_of_mass(elements).location
                    ELSE translate
    /\ clean' = IF plug \in OutputPlugs /\ ~center_of_mass(elements).raised
                THEN TRUE
                ELSE clean
    /\ UNCHANGED <<elements, calculate>>
    /\ UNCHANGED registryVars
    /\ UNCHANGED widgetVars

\* compute(plug, data): the plug test, the calculate test, then the centre of
\* mass written to the outputs, which are marked clean
Compute(plug) ==
    /\ computed' = IF plug \notin OutputPlugs THEN "ignored"
                   ELSE IF ~calculate THEN "skipped"
                   ELSE IF center_of_mass(elements).raised THEN "raised"
                   ELSE "set"
    /\ translate' = IF plug \in OutputPlugs /\ calculate
                       /\ ~center_of_mass(elements).raised
                    THEN center_of_mass(elements).location
                    ELSE translate
    /\ clean' = IF plug \in OutputPlugs
                   /\ (calculate => ~center_of_mass(elements).raised)
                THEN TRUE
                ELSE clean
    /\ UNCHANGED <<elements, calculate>>
    /\ UNCHANGED registryVars
    /\ UNCHANGED widgetVars

\* the calculate attribute is set from the settings dialog or the attribute
\* editor; it affects the translate plugs, which the host marks dirty
SetCalculate(value) ==
    /\ calculate # value
    /\ calculate' = value
    /\ clean' = FALSE
    /\ computed' = "none"
    /\ UNCHANGED <<elements, translate>>
    /\ UNCHANGED registryVars
    /\ UNCHANGED widgetVars

----------------------------------------------------------------------------
(* The host scene as scripts/massimo/core.py reads and writes it *)

Nodes == {"massA", "massB"}      \* the CenterOfMass nodes a scene can hold
Transforms == {"x", "y"}         \* the transforms a session connects
\* every transform of the scene, in the order the host lists them: those of
\* the root namespace and one of the same short name in each of two namespaces
SceneOrder == <<"x", "y", "ns:z", "ns2:z">>
SceneObjects == {SceneOrder[i] : i \in DOMAIN SceneOrder}
SectionIdx == 0 .. (MaxSections - 1)
\* the pointsOfBounds indices a section can come to use: MaxSlots through
\* add_section_influence calls, more when deserialise adds the influences of
\* several stored sections to one section
Slots == 0 .. (MaxSlots * MaxSections - 1)

None == "None"                   \* Python None where a str is expected

\* dicts and sparse multi attributes are functions on the keys in use
Put(f, k, v) == (k :> v) @@ f
Drop(f, k) == [x \in (DOMAIN f) \ {k} |-> f[x]]

\* Python None / a value, for functions that return an int or None
Nothing == <<>>
Some(v) == <<v>>

DefaultMass == 1

DefaultSettings ==
    [calculate |-> TRUE, drawDebuggingLines |-> TRUE, drawSphere |-> TRUE,
     drawVerticalLine |-> TRUE, sphereSize |-> 10]

\* what a session sets in the settings dialog (every field away from its default)
EditedSettings ==
    [calculate |-> FALSE, drawDebuggingLines |-> FALSE, drawSphere |-> FALSE,
     drawVerticalLine |-> FALSE, sphereSize |-> 5]

\* an element of `inputs` as the host instantiates it: null identifier,
\* default mass, nothing connected
NewElement ==
    [sectionIdentifier |-> None, mass |-> DefaultMass,
     pointsOfBounds |-> <<>>]

World == [scene |-> scene, inputs |-> inputs,
          sectionIndices |-> sectionIndices, cacheIsDirty |-> cacheIsDirty]

RECURSIVE Ascending(_)
Ascending(S) ==
    IF S = {} THEN <<>>
    ELSE LET m == CHOOSE x \in S : \A y \in S : x <= y
         IN  <<m>> \o Ascending(S \ {m})

Range(f) == {f[i] : i \in DOMAIN f}

\* mass_node.listAttr(multi=True, inUse=True), section part: the indices of
\* the elements of `inputs` that exist, in index order
listAttrSections(w, n) == Ascending(DOMAIN w.inputs[n])

\* mass_node.listAttr(multi=True, inUse=True), pointsOfBounds part of one section
listAttrBounds(w, n, idx) ==
    IF idx \in DOMAIN w.inputs[n]
    THEN Ascending(DOMAIN w.inputs[n][idx].pointsOfBounds)
    ELSE <<>>

\* cmds.getAttr('<node>.inputs[idx].sectionIdentifier'): reading an element
\* that does not exist instantiates it and returns None
getAttrSectionIdentifier(w, n, idx) ==
    IF idx \notin DOMAIN w.inputs[n]
    THEN [w |-> [w EXCEPT !.inputs[n] = Put(@, idx, NewElement)], ret |-> None]
    ELSE [w |-> w, ret |-> w.inputs[n][idx].sectionIdentifier]

\* cmds.removeMultiInstance(plug, b=True)
removeSection(w, n, idx) == [w EXCEPT !.inputs[n] = Drop(@, idx)]

removeBounds(w, n, idx, slot) ==
    IF idx \notin DOMAIN w.inputs[n] THEN w
    ELSE [w EXCEPT !.inputs[n][idx].pointsOfBounds = Drop(@, slot)]

----------------------------------------------------------------------------
(* MassimoCache *)

invalidate_section_cache(w) == [w EXCEPT !.cacheIsDirty = TRUE]

cache_sections(w, n, value) ==
    [w EXCEPT !.sectionIndices = Put(@, n, value), !.cacheIsDirty = FALSE]

is_section_cache_dirty(w) == w.cacheIsDirty

section_cache(w, n) ==
    IF is_section_cache_dirty(w) THEN <<>>
    ELSE IF n \notin DOMAIN w.sectionIndices THEN <<>>
    ELSE w.sectionIndices[n]

----------------------------------------------------------------------------
(* Queries of core.py.  Every operator takes the world and returns the     *)
(* world it leaves (cache writes, instantiated elements) and its result.   *)

_get_used_influence_indices(w, n, section_idx) == listAttrBounds(w, n, section_idx)

_get_used_section_indices(w, n) ==
    LET cached_info == section_cache(w, n)
    IN  IF cached_info # <<>>
        THEN [w |-> w, ret |-> cached_info]
        ELSE LET result == listAttrSections(w, n)
             IN  [w |-> cache_sections(w, n, result), ret |-> result]

RECURSIVE FirstIdxWithName(_, _, _, _)
FirstIdxWithName(w, n, indices, name) ==
    IF indices = <<>> THEN [w |-> w, ret |-> 0 - 1]
    ELSE LET got == getAttrSectionIdentifier(w, n, Head(indices))
         IN  IF got.ret = name
             THEN [w |-> got.w, ret |-> Head(indices)]
             ELSE FirstIdxWithName(got.w, n, Tail(indices), name)

_get_section_idx_from_name(w, n, name) ==
    LET used == _get_used_section_indices(w, n)
    IN  FirstIdxWithName(used.w, n, used.ret, name)

_get_name_from_section_idx(w, n, section_idx) ==
    LET used == _get_used_section_indices(w, n)
    IN  IF section_idx \notin Range(used.ret)
        THEN [w |-> used.w, ret |-> None]
        ELSE getAttrSectionIdentifier(used.w, n, section_idx)

RECURSIVE NamesOf(_, _, _)
NamesOf(w, n, indices) ==
    IF indices = <<>> THEN [w |-> w, ret |-> <<>>]
    ELSE LET first == _get_name_from_section_idx(w, n, Head(indices))
             rest == NamesOf(first.w, n, Tail(indices))
         IN  [w |-> rest.w, ret |-> <<first.ret>> \o rest.ret]

get_section_names(w, n) ==
    LET used == _get_used_section_indices(w, n)
    IN  NamesOf(used.w, n, used.ret)

get_section_weight_unguarded(w, n, section_name) ==
    LET found == _get_section_idx_from_name(w, n, section_name)
    IN  IF found.ret < 0
        THEN [w |-> found.w, ret |-> DefaultMass]
        ELSE [w |-> found.w, ret |-> found.w.inputs[n][found.ret].mass]

get_section_weight(w, n, section_name) ==
    LET found == _get_section_idx_from_name(w, n, section_name)
    IN  IF found.ret < 0
        THEN [w |-> found.w, ret |-> 0]
        ELSE [w |-> found.w, ret |-> found.w.inputs[n][found.ret].mass]

RECURSIVE DrivingNodes(_, _, _, _)
DrivingNodes(w, n, section_idx, slots) ==
    IF slots = <<>> THEN <<>>
    ELSE <<w.inputs[n][section_idx].pointsOfBounds[Head(slots)]>>
         \o DrivingNodes(w, n, section_idx, Tail(slots))

get_section_influences(w, n, section_name) ==
    LET found == _get_section_idx_from_name(w, n, section_name)
    IN  [w |-> found.w,
         ret |-> DrivingNodes(found.w, n, found.ret,
                              _get_used_influence_indices(found.w, n, found.ret))]

\* weights[section_name] = get_section_weight(...), one dict entry per name
RECURSIVE WeightsOf(_, _, _)
WeightsOf(w, n, names) ==
    IF names = <<>> THEN [w |-> w, ret |-> <<>>]
    ELSE LET first == get_section_weight(w, n, Head(names))
             rest == WeightsOf(first.w, n, Tail(names))
         IN  [w |-> rest.w, ret |-> <<first.ret>> \o rest.ret]

RECURSIVE SumOver(_, _)
SumOver(f, keys) ==
    IF keys = {} THEN 0
    ELSE LET k == CHOOSE x \in keys : TRUE
         IN  f[k] + SumOver(f, keys \ {k})

\* raised is the ZeroDivisionError of weight / total_weight
get_normalised_weights(w, n) ==
    LET names == get_section_names(w, n)
        values == WeightsOf(names.w, n, names.ret)
        \* a dict: a later entry of the same name replaces the earlier one
        weights == [k \in Range(names.ret) |->
                      values.ret[CHOOSE i \in DOMAIN names.ret :
                                   /\ names.ret[i] = k
                                   /\ \A j \in DOMAIN names.ret :
                                        names.ret[j] = k => j <= i]]
        total_weight == SumOver(weights, DOMAIN weights)
    IN  IF DOMAIN weights # {} /\ total_weight = 0
        THEN [w |-> values.w, ret |-> [raised |-> TRUE, weights |-> <<>>]]
        ELSE [w |-> values.w,
              ret |-> [raised |-> FALSE,
                       weights |-> [k \in DOMAIN weights |->
                                      Rat(weights[k], total_weight)]]]

----------------------------------------------------------------------------
(* Mutators of core.py *)

set_section_name(w, n, section_name, new_name) ==
    LET names == get_section_names(w, n)
        found == _get_section_idx_from_name(names.w, n, section_name)
    IN  IF new_name \in Range(names.ret)
        THEN [w |-> names.w, ret |-> Nothing]
        ELSE IF found.ret < 0
             THEN [w |-> found.w, ret |-> Nothing]
             ELSE [w |-> [found.w EXCEPT
                            !.inputs[n][found.ret].sectionIdentifier = new_name],
                   ret |-> Nothing]

set_section_weight(w, n, section_name, weight) ==
    LET found == _get_section_idx_from_name(w, n, section_name)
    IN  IF found.ret < 0
        THEN [w |-> found.w, ret |-> Nothing]
        ELSE [w |-> [found.w EXCEPT !.inputs[n][found.ret].mass = weight],
              ret |-> Nothing]

objExists(influence) == influence \in SceneObjects

\* the counter loop: the smallest index that is not in use
FirstUnused(used) ==
    CHOOSE c \in 0 .. Len(used) :
        /\ c \notin Range(used)
        /\ \A d \in 0 .. (c - 1) : d \in Range(used)

add_section_influence(w, n, section_name, influence) ==
    IF ~objExists(influence) THEN [w |-> w, ret |-> Nothing]
    ELSE LET found == _get_section_idx_from_name(w, n, section_name)
         IN  IF found.ret < 0
             THEN [w |-> found.w, ret |-> Nothing]
             ELSE LET used_influence_indices ==
                          _get_used_influence_indices(found.w, n, found.ret)
                      counter == FirstUnused(used_influence_indices)
                  IN  [w |-> [found.w EXCEPT
                                !.inputs[n][found.ret].pointsOfBounds =
                                    Put(@, counter, influence)],
                       ret |-> Some(counter)]

\* influence.worldMatrix[0].outputs(plugs=True): every plug of the scene the
\* influence drives, as <<node, section index, pointsOfBounds index>>
worldMatrixOutputs(w, influence) ==
    {p \in Nodes \X SectionIdx \X Slots :
        /\ p[2] \in DOMAIN w.inputs[p[1]]
        /\ p[3] \in DOMAIN w.inputs[p[1]][p[2]].pointsOfBounds
        /\ w.inputs[p[1]][p[2]].pointsOfBounds[p[3]] = influence}

RECURSIVE RemoveSlots(_, _, _, _)
RemoveSlots(w, n, section_idx, slots) ==
    IF slots = {} THEN w
    ELSE LET s == CHOOSE x \in slots : TRUE
         IN  RemoveSlots(removeBounds(w, n, section_idx, s), n, section_idx, slots \ {s})

remove_section_influence(w, n, section_name, influence) ==
    IF ~objExists(influence) THEN [w |-> w, ret |-> Nothing]
    ELSE LET found == _get_section_idx_from_name(w, n, section_name)
         IN  IF found.ret < 0
             THEN [w |-> found.w, ret |-> Nothing]
             ELSE \* 'inputs[<section_idx>]' in plug.name(): the plug's node is not looked at
                  LET plug_idx == {p[3] : p \in {q \in worldMatrixOutputs(found.w, influence) :
                                                   q[2] = found.ret}}
                  IN  [w |-> RemoveSlots(found.w, n, found.ret, plug_idx),
                       ret |-> Nothing]

\* `if not result`: None and the empty string both count as a fresh element
IsFalsy(identifier) == identifier = None \/ identifier = ""

RECURSIVE InitialiseFrom(_, _, _, _)
InitialiseFrom(w, n, name, counter) ==
    LET got == getAttrSectionIdentifier(w, n, counter)
    IN  IF IsFalsy(got.ret)
        THEN [w |-> [got.w EXCEPT !.inputs[n][counter].sectionIdentifier = name],
              ret |-> counter]
        ELSE InitialiseFrom(got.w, n, name, counter + 1)

_initialise_mass_section(w, n, name) == InitialiseFrom(w, n, name, 0)

add_mass_group_keeps_cache(w, n, name) == _initialise_mass_section(w, n, name)

add_mass_group(w, n, name) ==
    _initialise_mass_section(invalidate_section_cache(w), n, name)

remove_mass_group(w, n, section_name) ==
    LET found == _get_section_idx_from_name(w, n, section_name)
    IN  IF found.ret < 0
        THEN [w |-> found.w, ret |-> Nothing]
        ELSE [w |-> invalidate_section_cache(removeSection(found.w, n, found.ret)),
              ret |-> Nothing]

\* new(name): the shape node created in the free place n is named name + 'Settings'
new(w, n, name) ==
    [w |-> [w EXCEPT !.scene = Put(@, n, [name |-> name \o "Settings",
                                          settings |-> DefaultSettings])],
     ret |-> n]

----------------------------------------------------------------------------
(* serialise / deserialise *)

NoFile == <<>>

\* influence.split(':')[-1]
LastPart(identifier) ==
    CASE identifier = "rig:x" -> "x"
      [] identifier = "rig:ghost" -> "ghost"
      [] identifier = "ns:z" -> "z"
      [] identifier = "ns2:z" -> "z"
      [] OTHER -> identifier

\* pm.ls(name, r=True): the objects of that short name in the root namespace
\* or under any namespace
lsRecursive(name) == SelectSeq(SceneOrder, LAMBDA o : LastPart(o) = name)

RECURSIVE SectionData(_, _, _)
SectionData(w, n, names) ==
    IF names = <<>> THEN [w |-> w, ret |-> <<>>]
    ELSE LET weight == get_section_weight(w, n, Head(names))
             influences == get_section_influences(weight.w, n, Head(names))
             rest == SectionData(influences.w, n, Tail(names))
         IN  [w |-> rest.w,
              ret |-> <<[name |-> Head(names), weight |-> weight.ret,
                         influences |-> influences.ret]>> \o rest.ret]

\* json.dump / json.load keep strings, numbers, booleans and list order; the
\* key order that sort_keys changes is not part of a record
serialise(w, n) ==
    LET names == get_section_names(w, n)
        sections == SectionData(names.w, n, names.ret)
    IN  [w |-> sections.w,
         ret |-> [name |-> w.scene[n].name,
                  settings |-> w.scene[n].settings,
                  sections |-> sections.ret]]

RECURSIVE AddInfluences(_, _, _, _)
AddInfluences_stops_at_unresolved(w, n, section_name, influences) ==
    IF influences = <<>> THEN w
    ELSE LET influence == Head(influences)
             found == lsRecursive(LastPart(influence))
         IN  IF objExists(influence)
             THEN AddInfluences(add_section_influence(w, n, section_name, influence).w,
                                n, section_name, Tail(influences))
             ELSE IF found = <<>>
                  THEN w
                  ELSE AddInfluences(
                           add_section_influence(w, n, section_name,
                                                 found[1]).w,
                           n, section_name, Tail(influences))

AddInfluences(w, n, section_name, influences) ==
    IF influences = <<>> THEN w
    ELSE LET influence == Head(influences)
             found == lsRecursive(LastPart(influence))
         IN  IF objExists(influence)
             THEN AddInfluences(add_section_influence(w, n, section_name, influence).w,
                                n, section_name, Tail(influences))
             ELSE IF found = <<>>
                  THEN AddInfluences(w, n, section_name, Tail(influences))
                  ELSE AddInfluences(
                           add_section_influence(w, n, section_name,
                                                 found[1]).w,
                           n, section_name, Tail(influences))

RECURSIVE AddSections(_, _, _)
AddSections(w, n, sections) ==
    IF sections = <<>> THEN w
    ELSE LET section == Head(sections)
             added == add_mass_group(w, n, section.name)
             weighted == set_section_weight(added.w, n, section.name, section.weight)
         IN  AddSections(AddInfluences(weighted.w, n, section.name, section.influences),
                         n, Tail(sections))

\* deserialise(filepath); n is the free place the new node is created in
deserialise(w, n, data) ==
    LET created == new(w, n, data.name)
        configured == [created.w EXCEPT !.scene[n].settings = data.settings]
    IN  [w |-> AddSections(configured, n, data.sections), ret |-> n]

----------------------------------------------------------------------------
(* The calls of a session *)

Names == {"", "a", "b"}          \* the section names callers pass
Weights == {0, 2}                \* the weights callers set (the default is 1)

Returned(r, op, n, args) ==
    /\ scene' = r.w.scene
    /\ inputs' = r.w.inputs
    /\ sectionIndices' = r.w.sectionIndices
    /\ cacheIsDirty' = r.w.cacheIsDirty
    /\ lastCall' = [op |-> op, node |-> n, args |-> args, ret |-> r.ret]

Exists(n) == n \in DOMAIN scene

New(n) ==
    /\ ~Exists(n)
    /\ Returned(new(World, n, n), "new", n, <<n>>)
    /\ UNCHANGED <<file>>
    /\ UNCHANGED computeVars
    /\ UNCHANGED widgetVars

\* the settings dialog writes every setting of the node
SerialiseSettings(n) ==
    /\ Exists(n)
    /\ scene[n].settings # EditedSettings
    /\ scene' = [scene EXCEPT ![n].settings = EditedSettings]
    /\ lastCall' = [op |-> "serialiseSettings", node |-> n, args |-> <<>>, ret |-> Nothing]
    /\ UNCHANGED <<inputs, sectionIndices, cacheIsDirty, file>>
    /\ UNCHANGED computeVars
    /\ UNCHANGED widgetVars

\* an element that _initialise_mass_section can take lies within the bound
HasRoom(n) ==
    \E i \in SectionIdx :
        IF i \in DOMAIN inputs[n] THEN IsFalsy(inputs[n][i].sectionIdentifier) ELSE TRUE

AddMassGroup(n, name) ==
    /\ Exists(n)
    /\ HasRoom(n)
    /\ Returned([w |-> add_mass_group(World, n, name).w,
                 ret |-> Some(add_mass_group(World, n, name).ret)],
                "add_mass_group", n, <<name>>)
    /\ UNCHANGED <<file>>
    /\ UNCHANGED computeVars
    /\ UNCHANGED widgetVars

RemoveMassGroup(n, section_name) ==
    /\ Exists(n)
    /\ Returned(remove_mass_group(World, n, section_name),
                "remove_mass_group", n, <<section_name>>)
    /\ UNCHANGED <<file>>
    /\ UNCHANGED computeVars
    /\ UNCHANGED widgetVars

SetSectionName(n, section_name, new_name) ==
    /\ Exists(n)
    /\ Returned(set_section_name(World, n, section_name, new_name),
                "set_section_name", n, <<section_name, new_name>>)
    /\ UNCHANGED <<file>>
    /\ UNCHANGED computeVars
    /\ UNCHANGED widgetVars

SetSectionWeight(n, section_name, weight) ==
    /\ Exists(n)
    /\ Returned(set_section_weight(World, n, section_name, weight),
                "set_section_weight", n, <<section_name, weight>>)
    /\ UNCHANGED <<file>>
    /\ UNCHANGED computeVars
    /\ UNCHANGED widgetVars

AddSectionInfluence(n, section_name, influence) ==
    /\ Exists(n)
    /\ LET r == add_section_influence(World, n, section_name, influence)
       IN  /\ r.ret # Nothing => r.ret[1] < MaxSlots
           /\ Returned(r, "add_section_influence", n, <<section_name, influence>>)
    /\ UNCHANGED <<file>>
    /\ UNCHANGED computeVars
    /\ UNCHANGED widgetVars

RemoveSectionInfluence(n, section_name, influence) ==
    /\ Exists(n)
    /\ Returned(remove_section_influence(World, n, section_name, influence),
                "remove_section_influence", n, <<section_name, influence>>)
    /\ UNCHANGED <<file>>
    /\ UNCHANGED computeVars
    /\ UNCHANGED widgetVars

GetSectionNames(n) ==
    /\ Exists(n)
    /\ Returned(get_section_names(World, n), "get_section_names", n, <<>>)
    /\ UNCHANGED <<file>>
    /\ UNCHANGED computeVars
    /\ UNCHANGED widgetVars

GetSectionWeight(n, section_name) ==
    /\ Exists(n)
    /\ Returned(get_section_weight(World, n, section_name),
                "get_section_weight", n, <<section_name>>)
    /\ UNCHANGED <<file>>
    /\ UNCHANGED computeVars
    /\ UNCHANGED widgetVars

GetSectionInfluences(n, section_name) ==
    /\ Exists(n)
    /\ Returned(get_section_influences(World, n, section_name),
                "get_section_influences", n, <<section_name>>)
    /\ UNCHANGED <<file>>
    /\ UNCHANGED computeVars
    /\ UNCHANGED widgetVars

GetNormalisedWeights(n) ==
    /\ Exists(n)
    /\ Returned(get_normalised_weights(World, n), "get_normalised_weights", n, <<>>)
    /\ UNCHANGED <<file>>
    /\ UNCHANGED computeVars
    /\ UNCHANGED widgetVars

Serialise(n) ==
    /\ Exists(n)
    /\ file = NoFile
    /\ Returned(serialise(World, n), "serialise", n, <<>>)
    /\ file' = <<serialise(World, n).ret>>
    /\ UNCHANGED computeVars
    /\ UNCHANGED widgetVars

\* stored names are strings: a null section identifier is not loaded
Loadable(data) == \A i \in DOMAIN data.sections : data.sections[i].name # None

Deserialise(n) ==
    /\ ~Exists(n)
    /\ file # NoFile
    /\ Loadable(file[1])
    /\ Returned(deserialise(World, n, file[1]), "deserialise", n, <<>>)
    /\ UNCHANGED <<file>>
    /\ UNCHANGED computeVars
    /\ UNCHANGED widgetVars

----------------------------------------------------------------------------
(* MassimoWidget and its script jobs: app/widgets/window.py *)

Widgets == {"widgetA", "widgetB"}

\* the events _registerScriptJobs registers a refresh with, in its order
events == <<"NewSceneOpened", "SceneOpened">>

\* the widget side and the host side of the script jobs, threaded through a handler
Jobs == [ids |-> scriptJobIDs, live |-> scriptJobs, next |-> nextJob]

\* pm.scriptJob(event=[event, self.populateMassimoNodes]): the host registers
\* the job under the next job number and returns the number
scriptJobEvent(u, event, widget) ==
    [u |-> [u EXCEPT !.live = Put(@, u.next, [event |-> event, owner |-> widget]),
                     !.next = @ + 1],
     ret |-> u.next]

\* pm.scriptJob(kill=identifier, force=True)
scriptJobKill(u, identifier) == [u EXCEPT !.live = Drop(@, identifier)]

\* the loop of _registerScriptJobs over the events
RECURSIVE AppendJobs(_, _, _)
AppendJobs(u, widget, remaining) ==
    IF remaining = <<>> THEN u
    ELSE LET job == scriptJobEvent(u, Head(remaining), widget)
         IN  AppendJobs([job.u EXCEPT !.ids[widget] = Append(@, job.ret)],
                        widget, Tail(remaining))

_registerScriptJobs_unguarded(u, widget) == AppendJobs(u, widget, events)

_registerScriptJobs(u, widget) ==
    IF u.ids[widget] # <<>> THEN u
    ELSE AppendJobs(u, widget, events)

\* the loop of _unregisterScriptJobs over self.scriptJobIDs
RECURSIVE KillJobs(_, _)
KillJobs(u, identifiers) ==
    IF identifiers = <<>> THEN u
    ELSE KillJobs(scriptJobKill(u, Head(identifiers)), Tail(identifiers))

_unregisterScriptJobs(u, widget) ==
    [KillJobs(u, u.ids[widget]) EXCEPT !.ids[widget] = <<>>]

\* a handler of the widget ran and left u
Handled(u, op, widget) ==
    /\ u.next <= MaxJobs
    /\ scriptJobIDs' = u.ids
    /\ scriptJobs' = u.live
    /\ nextJob' = u.next
    /\ lastCall' = [op |-> op, node |-> widget, args |-> <<>>, ret |-> Nothing]
    /\ UNCHANGED <<scene, inputs, sectionIndices, cacheIsDirty, file>>
    /\ UNCHANGED computeVars

\* MassimoWidget.__init__: the id list is created empty, then the jobs are registered
Construct(widget) ==
    /\ widget \notin DOMAIN scriptJobIDs
    /\ Handled(_registerScriptJobs([Jobs EXCEPT !.ids = Put(@, widget, <<>>)], widget),
               "__init__", widget)

showEvent(widget) ==
    /\ widget \in DOMAIN scriptJobIDs
    /\ Handled(_registerScriptJobs(Jobs, widget), "showEvent", widget)

hideEvent(widget) ==
    /\ widget \in DOMAIN scriptJobIDs
    /\ Handled(_unregisterScriptJobs(Jobs, widget), "hideEvent", widget)

\* the host before any widget is constructed
InitWidgets ==
    /\ scriptJobIDs = <<>>
    /\ scriptJobs = <<>>
    /\ nextJob = 0

----------------------------------------------------------------------------
(* Specifications *)

NoCall == [op |-> "none", node |-> "none", args |-> <<>>, ret |-> Nothing]

\* the scene before any mass node is created; MassimoCache as the class body
\* leaves it
InitRegistry ==
    /\ scene = <<>>
    /\ inputs = [n \in Nodes |-> <<>>]
    /\ sectionIndices = <<>>
    /\ cacheIsDirty = TRUE
    /\ file = NoFile
    /\ lastCall = NoCall

InitCompute ==
    /\ elements = <<>>
    /\ calculate = TRUE
    /\ translate = Origin
    /\ clean = FALSE
    /\ computed = "none"

Init == InitRegistry /\ InitCompute /\ InitWidgets

\* sections and the section cache, over two mass nodes
Next ==
    \/ \E n \in Nodes : New(n)
    \/ \E n \in Nodes, name \in Names : AddMassGroup(n, name)
    \/ \E n \in Nodes, name \in Names : RemoveMassGroup(n, name)
    \/ \E n \in Nodes, name \in Names, new_name \in Names : SetSectionName(n, name, new_name)
    \/ \E n \in Nodes : GetSectionNames(n)

Spec == Init /\ [][Next]_vars

\* one evaluation of a CenterOfMass node over every bounded `inputs` array
InitAnyElements ==
    /\ InitRegistry
    /\ elements \in ElementLists(MaxElems)
    /\ calculate = TRUE
    /\ translate = Origin
    /\ clean = FALSE
    /\ computed = "none"
    /\ InitWidgets

NextCompute ==
    \/ \E plug \in Plugs : Compute(plug)
    \/ \E value \in BOOLEAN : SetCalculate(value)

SpecCompute == InitAnyElements /\ [][NextCompute]_vars

\* the influences of the sections of massA; massB is the other mass node of
\* the scene, with one section
NextInfluences ==
    \/ \E n \in Nodes : New(n)
    \/ \E name \in {"a", "b"} : AddMassGroup("massA", name)
    \/ AddMassGroup("massB", "a")
    \/ \E n \in Nodes : GetSectionNames(n)
    \/ \E name \in {"a", "b"}, influence \in Transforms :
          AddSectionInfluence("massA", name, influence)
    \/ \E influence \in Transforms : AddSectionInfluence("massB", "a", influence)
    \/ \E name \in {"a", "b"}, influence \in Transforms :
          RemoveSectionInfluence("massA", name, influence)
    \/ \E name \in {"a", "b"} : GetSectionInfluences("massA", name)

SpecInfluences == Init /\ [][NextInfluences]_vars

\* the weights of the sections of massA, a negative weight among them; massB
\* is the other mass node of the scene
NextWeights ==
    \/ \E n \in Nodes : New(n)
    \/ \E name \in {"a", "b"} : AddMassGroup("massA", name)
    \/ \E name \in {"a", "b"} : RemoveMassGroup("massA", name)
    \/ \E name \in {"a", "b"}, weight \in Weights \cup {0 - 2} :
          SetSectionWeight("massA", name, weight)
    \/ \E name \in {"a", "b"} : GetSectionWeight("massA", name)
    \/ GetNormalisedWeights("massA")
    \/ \E n \in Nodes : GetSectionNames(n)

SpecWeights == Init /\ [][NextWeights]_vars

\* a session that builds massA, saves it, and loads the file as massB; the
\* weights set are the ones that differ from zero
NextRoundTrip ==
    \/ New("massA")
    \/ file = NoFile /\ \E name \in Names : AddMassGroup("massA", name)
    \/ file = NoFile /\ \E name \in Names, new_name \in Names :
                           SetSectionName("massA", name, new_name)
    \/ file = NoFile /\ \E name \in Names, weight \in Weights \ {0} :
                           SetSectionWeight("massA", name, weight)
    \/ file = NoFile /\ \E name \in Names, influence \in Transforms :
                           AddSectionInfluence("massA", name, influence)
    \/ file = NoFile /\ \E name \in Names, influence \in Transforms :
                           RemoveSectionInfluence("massA", name, influence)
    \/ file = NoFile /\ SerialiseSettings("massA")
    \/ Serialise("massA")
    \/ Deserialise("massB")

SpecRoundTrip == Init /\ [][NextRoundTrip]_vars

\* the queries of massA by section name, with sections added and removed
\* and influences connected; massB is the other mass node of the scene
NextQueries ==
    \/ \E n \in Nodes : New(n)
    \/ \E name \in {"a", "b"} : AddMassGroup("massA", name)
    \/ \E name \in {"a", "b"} : RemoveMassGroup("massA", name)
    \/ \E name \in {"a", "b"} : AddSectionInfluence("massA", name, "x")
    \/ \E name \in {"a", "b"} : SetSectionWeight("massA", name, 2)
    \/ \E n \in Nodes : GetSectionNames(n)
    \/ \E name \in Names : GetSectionWeight("massA", name)
    \/ \E name \in Names : GetSectionInfluences("massA", name)

SpecQueries == Init /\ [][NextQueries]_vars

\* the identifiers a .mass file written in another scene can hold: the name
\* of a transform of this scene, names under a namespace this scene does not
\* have, and a short name this scene has under namespaces only
StoredIdentifiers == {"x", "rig:x", "rig:ghost", "z"}

StoredInfluences ==
    {<<>>} \cup {<<i>> : i \in StoredIdentifiers}
           \cup {<<i, j>> : i \in StoredIdentifiers, j \in StoredIdentifiers}

StoredSections == [name : {"a", "b"}, weight : {2}, influences : StoredInfluences]

StoredFiles ==
    [name : {"saved"}, settings : {EditedSettings},
     sections : {<<>>} \cup {<<s>> : s \in StoredSections}
                       \cup {<<s, t>> : s \in StoredSections, t \in StoredSections}]

\* a scene without mass nodes and a .mass file on disk
InitLoad ==
    /\ scene = <<>>
    /\ inputs = [n \in Nodes |-> <<>>]
    /\ sectionIndices = <<>>
    /\ cacheIsDirty = TRUE
    /\ file \in {<<data>> : data \in StoredFiles}
    /\ lastCall = NoCall
    /\ InitCompute
    /\ InitWidgets

NextLoad ==
    \/ \E n \in Nodes : Deserialise(n)
    \/ \E n \in Nodes : GetSectionNames(n)

SpecLoad == InitLoad /\ [][NextLoad]_vars

\* the mutators of massA by section name, over sections that are added and
\* removed; massB is the other mass node of the scene
NextMutators ==
    \/ \E n \in Nodes : New(n)
    \/ \E name \in {"a", "b"} : AddMassGroup("massA", name)
    \/ \E name \in {"a", "b"} : RemoveMassGroup("massA", name)
    \/ \E name \in {"a", "b"}, new_name \in {"a", "b"} : SetSectionName("massA", name, new_name)
    \/ \E name \in {"a", "b"} : SetSectionWeight("massA", name, 2)
    \/ \E name \in {"a", "b"} : AddSectionInfluence("massA", name, "x")
    \/ \E name \in {"a", "b"} : RemoveSectionInfluence("massA", name, "x")
    \/ \E n \in Nodes : GetSectionNames(n)

SpecMutators == Init /\ [][NextMutators]_vars

\* construction, show and hide events of the widgets, in any order
NextWidgets ==
    \/ \E widget \in Widgets : Construct(widget)
    \/ \E widget \in Widgets : showEvent(widget)
    \/ \E widget \in Widgets : hideEvent(widget)

SpecWidgets == Init /\ [][NextWidgets]_vars

----------------------------------------------------------------------------
(* Properties of the centre-of-mass evaluation (SpecCompute) *)

Orders(data) ==
    {p \in [DOMAIN data -> DOMAIN data] : \A i, j \in DOMAIN data : p[i] = p[j] => i = j}

Reordered(data, p) == [i \in DOMAIN data |-> data[p[i]]]

IsAscending(data) ==
    \A i, j \in DOMAIN data : i < j => data[i].mass <= data[j].mass

\* the procedure of the specification, step k of it: running_mass and current
\* after the first k pairs (undefined once mass / running_mass divides by zero)
RECURSIVE ProcedureAfter(_, _)
ProcedureAfter(pairs, k) ==
    IF k = 0 THEN [defined |-> TRUE, running_mass |-> 0, current |-> NoLocation]
    ELSE LET before == ProcedureAfter(pairs, k - 1)
             running_mass == before.running_mass + pairs[k].mass
             t == Rat(pairs[k].mass, running_mass)
             c == pairs[k].location
         IN  IF ~before.defined THEN before
             ELSE IF before.current = NoLocation
                  THEN [defined |-> TRUE, running_mass |-> running_mass, current |-> c]
                  ELSE IF running_mass = 0
                       THEN [defined |-> FALSE, running_mass |-> running_mass,
                             current |-> before.current]
                       ELSE [defined |-> TRUE, running_mass |-> running_mass,
                             current |->
                                [x \in 1..3 |->
                                   RAdd(RMul(RSub(c[x], before.current[x]), t),
                                        before.current[x])]]

Procedure(pairs) == ProcedureAfter(pairs, Len(pairs))

\* C1: whenever compute() has evaluated a node with at least one pair that
\* survives the filtering, its outcome is the outcome of the specified
\* procedure on the pairs sorted ascending by mass, for every way of ordering
\* pairs of equal mass: the output is the procedure's final `current`, and
\* compute() raises exactly where the procedure divides by zero
C1_ComputeIsAscendingLerp ==
    (computed \in {"set", "raised"} /\ collate(elements) # <<>>) =>
        \A p \in Orders(collate(elements)) :
            LET pairs == Reordered(collate(elements), p)
            IN  IsAscending(pairs) =>
                    IF Procedure(pairs).defined
                    THEN computed = "set" /\ translate = Procedure(pairs).current
                    ELSE computed = "raised"

\* three pairs that the sort has to reorder were blended into a point that is
\* none of the three centres
C1_Witness ==
    /\ computed = "set"
    /\ Len(collate(elements)) = 3
    /\ ~IsAscending(collate(elements))
    /\ \A i \in 1..3 : translate # collate(elements)[i].location

RECURSIVE WeightedSum(_, _, _)
WeightedSum(pairs, k, x) ==
    IF k = 0 THEN RInt(0)
    ELSE RAdd(WeightedSum(pairs, k - 1, x),
              RMul(RInt(pairs[k].mass), pairs[k].location[x]))

RECURSIVE TotalMass(_, _)
TotalMass(pairs, k) == IF k = 0 THEN 0 ELSE TotalMass(pairs, k - 1) + pairs[k].mass

\* sum(m_i * c_i) / sum(m_i)
WeightedMean(pairs) ==
    [x \in 1..3 |-> RDiv(WeightedSum(pairs, Len(pairs), x),
                         RInt(TotalMass(pairs, Len(pairs))))]

AllPositive(pairs) == \A i \in DOMAIN pairs : pairs[i].mass > 0

Distinct(pairs) ==
    \A i, j \in DOMAIN pairs :
        i # j => pairs[i].mass # pairs[j].mass /\ pairs[i].location # pairs[j].location

\* C2 as stated: the running-ratio lerp meets the closed-form weighted mean
\* only in ascending mass order, so for positive pairs of distinct masses and
\* distinct centres every other iteration order ends in a different point
C2_MeanOnlyWhenAscending ==
    (computed = "set" /\ AllPositive(collate(elements)) /\ Distinct(collate(elements))) =>
        \A p \in Orders(collate(elements)) :
            LET pairs == Reordered(collate(elements), p)
            IN  ~IsAscending(pairs) =>
                    blend(pairs, 0, NoLocation).location # WeightedMean(collate(elements))

\* C2 amended: for positive masses the running-ratio lerp ends in the
\* closed-form weighted mean in every iteration order, and that is the point
\* compute() outputs
C2_OrderIndependentMean ==
    (computed = "set" /\ collate(elements) # <<>> /\ AllPositive(collate(elements))) =>
        /\ translate = WeightedMean(collate(elements))
        /\ \A p \in Orders(collate(elements)) :
               LET r == blend(Reordered(collate(elements), p), 0, NoLocation)
               IN  ~r.raised /\ r.location = WeightedMean(collate(elements))

\* three positive pairs of distinct masses and centres, given in descending order
C2_Witness ==
    /\ computed = "set"
    /\ Len(collate(elements)) = 3
    /\ AllPositive(collate(elements))
    /\ \A i, j \in 1..3 : i < j => /\ collate(elements)[i].mass >= collate(elements)[j].mass
                                   /\ collate(elements)[i].location # collate(elements)[j].location
    /\ collate(elements)[1].mass > collate(elements)[3].mass

\* C12: the pairs that take part in an evaluation all have a mass above
\* zero, so mass / running_mass never divides by zero
C12_OnlyPositiveMassesTakePart ==
    computed \in {"set", "raised"} =>
        /\ AllPositive(collate(elements))
        /\ computed = "set"

\* C13: when no element of `inputs` gives a pair (there is no element, or
\* every element has mass 0.0 or is not considered), an evaluation with
\* calculate enabled sets the outputs to the origin
C13_NothingContributesGivesOrigin ==
    (computed \in {"set", "raised"} /\ collate(elements) = <<>>) =>
        (computed = "set" /\ translate = Origin)

\* three elements with connected influences, all of them filtered out
C13_Witness ==
    /\ computed = "set"
    /\ Len(elements) = 3
    /\ \A i \in 1..3 : elements[i].positions # <<>>
    /\ \E i \in 1..3 : elements[i].mass # 0
    /\ collate(elements) = <<>>
    /\ translate = Origin

\* the sum of coordinate x over the first k positions
RECURSIVE CoordinateSum(_, _, _)
CoordinateSum(positions, k, x) ==
    IF k = 0 THEN RInt(0)
    ELSE RAdd(CoordinateSum(positions, k - 1, x), positions[k][x])

ArithmeticMean(positions) ==
    [x \in 1..3 |-> RDiv(CoordinateSum(positions, Len(positions), x),
                         RInt(Len(positions)))]

\* C14: center() of a non-empty list of positions is their arithmetic mean
\* per coordinate, and that mean is the centre the element's pair carries
C14_CenterIsArithmeticMean ==
    \A i \in DOMAIN elements :
        elements[i].positions # <<>> =>
            /\ center(elements[i].positions) = ArithmeticMean(elements[i].positions)
            /\ (computed \in {"set", "raised"} /\ elements[i].mass # 0 /\ elements[i].consider)
                  => \E k \in DOMAIN collate(elements) :
                        collate(elements)[k] =
                            [mass |-> elements[i].mass,
                             location |-> ArithmeticMean(elements[i].positions)]

\* an evaluation took the centre of an element with two influence positions
\* and of an element with one
C14_Witness ==
    /\ computed = "set"
    /\ \E i, j \in DOMAIN elements :
          /\ Len(elements[i].positions) = 2
          /\ Len(elements[j].positions) = 1
          /\ elements[i].mass # 0 /\ elements[i].consider
          /\ elements[j].mass # 0 /\ elements[j].consider

\* C22: a compute for an output plug while calculate is false leaves the
\* translate outputs as they were and marks them clean, whatever the section
\* inputs hold (it neither sets the outputs nor fails on them); a compute for
\* a plug that is not an output changes nothing
C22_ComputeSkipsOrIgnores ==
    [][/\ computed' = "ignored"
            => UNCHANGED <<elements, calculate, translate, clean>>
       /\ (computed' # "none" /\ ~calculate)
            => /\ computed' \in {"ignored", "skipped"}
               /\ UNCHANGED <<elements, calculate, translate>>
               /\ computed' = "skipped" => clean'
      ]_vars

\* a compute was skipped where the inputs give another point than the outputs hold
C22_Witness ==
    /\ computed = "skipped"
    /\ clean
    /\ ~center_of_mass(elements).raised
    /\ translate # center_of_mass(elements).location

\* the sections that take part, each with its mass and the mean of its
\* influence positions, a section without influences placed at the origin
RECURSIVE Contributions(_)
Contributions(elems) ==
    IF elems = <<>> THEN <<>>
    ELSE LET e == Head(elems)
             rest == Contributions(Tail(elems))
         IN  IF e.mass = 0 \/ ~e.consider THEN rest
             ELSE <<[mass |-> e.mass,
                     location |-> IF e.positions = <<>> THEN Origin
                                  ELSE ArithmeticMean(e.positions)]>> \o rest

\* C23: for a considered section of non-zero mass without influences,
\* center() of its empty position list is the origin, an evaluation gives it
\* the pair of its mass and the origin, and with positive masses the point
\* set is the weighted mean that counts it at the origin with its full mass
C23_UnconnectedSectionCountsAtOrigin ==
    \A i \in DOMAIN elements :
        (elements[i].positions = <<>> /\ elements[i].mass # 0 /\ elements[i].consider) =>
            /\ center(elements[i].positions) = Origin
            /\ computed \in {"set", "raised"}
                  => \E k \in DOMAIN collate(elements) :
                        collate(elements)[k] = [mass |-> elements[i].mass, location |-> Origin]
            /\ (computed = "set" /\ AllPositive(Contributions(elements)))
                  => translate = WeightedMean(Contributions(elements))

\* a section without influences and a connected section were blended into a
\* point that is neither the origin nor the centre of the connected section
C23_Witness ==
    /\ computed = "set"
    /\ Len(elements) = 2
    /\ elements[1].positions = <<>> /\ elements[1].mass > 0 /\ elements[1].consider
    /\ elements[2].positions # <<>> /\ elements[2].mass > 0 /\ elements[2].consider
    /\ translate # Origin
    /\ translate # center(elements[2].positions)

RLeq(a, b) == a[1] * b[2] <= b[1] * a[2]

\* coordinate x of point p lies between the least and the greatest
\* coordinate x of the centres of the pairs
Within(p, pairs, x) ==
    /\ \E lo \in DOMAIN pairs : RLeq(pairs[lo].location[x], p[x])
    /\ \E hi \in DOMAIN pairs : RLeq(p[x], pairs[hi].location[x])

----------------------------------------------------------------------------
(* Properties of the section registry and its cache (Spec) *)

\* the identifiers of the sections of a node, by index
Identifier(n, i) == inputs[n][i].sectionIdentifier
Carriers(n, name) == {i \in DOMAIN inputs[n] : Identifier(n, i) = name}

\* the sections of node n that exist before a step are the same after it
SectionsKept(n) ==
    \A i \in DOMAIN inputs[n] : i \in DOMAIN inputs'[n] /\ inputs'[n][i] = inputs[n][i]

\* C3: no two occupied sections of one mass node carry the same name
C3_SectionNamesUnique ==
    \A n \in Nodes : \A i, j \in DOMAIN inputs[n] :
        i # j => Identifier(n, i) # Identifier(n, j)

\* C4: a set_section_name call whose new name is carried by a section of the
\* node returns None and leaves every section of the node as it was
C4_RenameToUsedNameRejected ==
    [][(/\ lastCall'.op = "set_section_name"
        /\ Carriers(lastCall'.node, lastCall'.args[2]) # {})
       => (lastCall'.ret = Nothing /\ SectionsKept(lastCall'.node))]_vars

\* C7: add_mass_group takes the lowest index of `inputs` that no section
\* uses, names it, returns it, and leaves every existing section as it was
C7_AddTakesFirstUnusedIndex ==
    [][lastCall'.op = "add_mass_group"
       => LET n == lastCall'.node
              idx == lastCall'.ret[1]
          IN  /\ idx \notin DOMAIN inputs[n]
              /\ \A i \in 0 .. (idx - 1) : i \in DOMAIN inputs[n]
              /\ inputs'[n] = Put(inputs[n], idx,
                                  [NewElement EXCEPT !.sectionIdentifier = lastCall'.args[1]])
      ]_vars

\* C8: remove_mass_group of a name that exactly one section carries frees the
\* index of that section with its connections, the name is no longer listed,
\* the other sections are as they were, and when the freed index is the
\* lowest free one the next add_mass_group takes it
C8_RemoveFreesTheSection ==
    [][(/\ lastCall'.op = "remove_mass_group"
        /\ Cardinality(Carriers(lastCall'.node, lastCall'.args[1])) = 1)
       => LET n == lastCall'.node
              idx == CHOOSE i \in Carriers(n, lastCall'.args[1]) : TRUE
          IN  /\ inputs'[n] = Drop(inputs[n], idx)
              /\ lastCall'.args[1] \notin Range(get_section_names(World', n).ret)
              /\ (\A i \in 0 .. (idx - 1) : i \in DOMAIN inputs[n])
                    => add_mass_group(World', n, "a").ret = idx
      ]_vars

C17_CacheCoherentAcrossNodes ==
    \A n \in DOMAIN scene :
        Range(_get_used_section_indices(World, n).ret) = DOMAIN inputs[n]

\* C20: set_section_name from a name a section carries to a name no section
\* carries changes the name of one section that carried the old name and
\* nothing else, and the next get_section_names lists the new name, and no
\* longer the old one when one section carried it
C20_RenameChangesOnlyTheName ==
    [][(/\ lastCall'.op = "set_section_name"
        /\ Carriers(lastCall'.node, lastCall'.args[1]) # {}
        /\ Carriers(lastCall'.node, lastCall'.args[2]) = {})
       => LET n == lastCall'.node
              old == lastCall'.args[1]
              new_name == lastCall'.args[2]
              names == Range(get_section_names(World', n).ret)
          IN  /\ \E idx \in Carriers(n, old) :
                    inputs' = [inputs EXCEPT ![n][idx].sectionIdentifier = new_name]
              /\ new_name \in names
              /\ Cardinality(Carriers(n, old)) = 1 => old \notin names
      ]_vars

----------------------------------------------------------------------------
(* Properties of the normalised weights (SpecWeights) *)

RECURSIVE RSumOver(_, _)
RSumOver(f, keys) ==
    IF keys = {} THEN RInt(0)
    ELSE LET k == CHOOSE x \in keys : TRUE
         IN  RAdd(f[k], RSumOver(f, keys \ {k}))

\* the total of the weights of the sections of node n
TotalWeight(n) == SumOver([i \in DOMAIN inputs[n] |-> inputs[n][i].mass], DOMAIN inputs[n])

\* C5: when the weights of the sections of a node total more than zero,
\* get_normalised_weights does not fail, has one entry per section name, each
\* entry is weight / total, and the entries sum to 1
C5_NormalisedWeightsSumToOne ==
    [][(/\ lastCall'.op = "get_normalised_weights"
        /\ TotalWeight(lastCall'.node) > 0)
       => LET n == lastCall'.node
              result == lastCall'.ret
          IN  /\ ~result.raised
              /\ DOMAIN result.weights = {Identifier(n, i) : i \in DOMAIN inputs[n]}
              /\ \A i \in DOMAIN inputs[n] :
                    result.weights[Identifier(n, i)] = Rat(inputs[n][i].mass, TotalWeight(n))
              /\ RSumOver(result.weights, DOMAIN result.weights) = RInt(1)
      ]_vars

\* C15: get_normalised_weights of a node with sections whose weights total
\* zero fails with the division by zero, and of a node without sections
\* returns the empty mapping
C15_ZeroTotalIsNotGuarded ==
    [][lastCall'.op = "get_normalised_weights"
       => LET n == lastCall'.node
              result == lastCall'.ret
          IN  /\ (DOMAIN inputs[n] # {} /\ TotalWeight(n) = 0) => result.raised
              /\ DOMAIN inputs[n] = {} => (~result.raised /\ result.weights = <<>>)
      ]_vars

\* C21: set_section_weight of a name a section of the node carries gives one
\* section carrying that name the weight and changes nothing else, and the
\* get_section_weight of that name that follows returns the weight
C21_SetWeightIsReadBack ==
    [][(/\ lastCall'.op = "set_section_weight"
        /\ Carriers(lastCall'.node, lastCall'.args[1]) # {})
       => LET n == lastCall'.node
              name == lastCall'.args[1]
              weight == lastCall'.args[2]
          IN  /\ get_section_weight(World', n, name).ret = weight
              /\ \E idx \in Carriers(n, name) :
                    inputs' = [inputs EXCEPT ![n][idx].mass = weight]
      ]_vars

----------------------------------------------------------------------------
(* Properties of the influences (SpecInfluences) *)

\* C9: add_section_influence of a transform of the scene to a name that a
\* section carries returns the smallest pointsOfBounds index the section does
\* not use and adds that one connection; every connection there was is kept
C9_InfluenceTakesSmallestUnusedIndex ==
    [][(/\ lastCall'.op = "add_section_influence"
        /\ Carriers(lastCall'.node, lastCall'.args[1]) # {}
        /\ lastCall'.args[2] \in Transforms)
       => LET n == lastCall'.node
          IN  \E idx \in Carriers(n, lastCall'.args[1]) :
                LET used == DOMAIN inputs[n][idx].pointsOfBounds
                    counter == CHOOSE c \in 0 .. Cardinality(used) :
                                  c \notin used /\ \A d \in 0 .. (c - 1) : d \in used
                IN  /\ lastCall'.ret = Some(counter)
                    /\ inputs' = [inputs EXCEPT ![n][idx].pointsOfBounds =
                                                    Put(@, counter, lastCall'.args[2])]
      ]_vars

\* the connections f without those of one influence
Without(f, influence) ==
    [k \in {s \in DOMAIN f : f[s] # influence} |-> f[k]]

\* C18: remove_section_influence of a transform of the scene from a name
\* that a section carries removes the connections of that transform in that
\* section, and leaves every other connection of the section, of the other
\* sections of the node and of the other mass nodes as it was
C18_RemoveInfluenceTouchesNothingElse ==
    [][(/\ lastCall'.op = "remove_section_influence"
        /\ Carriers(lastCall'.node, lastCall'.args[1]) # {}
        /\ lastCall'.args[2] \in Transforms)
       => LET n == lastCall'.node
          IN  \E idx \in Carriers(n, lastCall'.args[1]) :
                inputs' = [inputs EXCEPT ![n][idx].pointsOfBounds =
                                             Without(@, lastCall'.args[2])]
      ]_vars

----------------------------------------------------------------------------
(* Properties of saving and loading (SpecRoundTrip) *)

\* C6: the node that deserialise creates from a file serialises to the
\* sections of the file, in the same order, each with the same name, weight
\* and influences, and to the same settings
C6_RoundTripIdentical ==
    lastCall.op = "deserialise"
       => LET again == serialise(World, lastCall.node).ret
          IN  /\ again.sections = file[1].sections
              /\ again.settings = file[1].settings

\* C25: the node that deserialise creates from the file serialise wrote
\* serialises to the name the file holds
C25_NameStableUnderRoundTrip ==
    lastCall.op = "deserialise"
       => serialise(World, lastCall.node).ret.name = file[1].name

----------------------------------------------------------------------------
(* Properties of the queries by name (SpecQueries) *)

\* C11: a query with a name that no section of the node carries returns its
\* sentinel: -1 for the index, 0 for the weight, the empty list for the
\* influences
C11_UnresolvedQueriesReturnSentinels ==
    [][(/\ lastCall'.op \in {"get_section_weight", "get_section_influences"}
        /\ Carriers(lastCall'.node, lastCall'.args[1]) = {})
       => (/\ _get_section_idx_from_name(World, lastCall'.node, lastCall'.args[1]).ret = 0 - 1
           /\ lastCall'.op = "get_section_weight" => lastCall'.ret = 0
           /\ lastCall'.op = "get_section_influences" => lastCall'.ret = <<>>)
      ]_vars

\* a weight was asked of a name that no section carries, on a node holding a
\* section with an influence and another weight
C11_Witness ==
    /\ lastCall.op = "get_section_weight"
    /\ Carriers(lastCall.node, lastCall.args[1]) = {}
    /\ \E i \in DOMAIN inputs[lastCall.node] :
          /\ inputs[lastCall.node][i].mass = 2
          /\ inputs[lastCall.node][i].pointsOfBounds # <<>>

----------------------------------------------------------------------------
(* Properties of loading a file (SpecLoad) *)

\* the object a stored identifier is resolved to, if any: the object of that
\* exact name, else the first object of the name's last part under any namespace
Resolved(identifier) ==
    IF identifier \in SceneObjects THEN <<identifier>>
    ELSE LET short == LastPart(identifier)
             matches == {i \in DOMAIN SceneOrder : LastPart(SceneOrder[i]) = short}
         IN  IF matches = {} THEN <<>>
             ELSE <<SceneOrder[CHOOSE i \in matches : \A j \in matches : i <= j]>>

RECURSIVE ResolvedAll(_)
ResolvedAll(identifiers) ==
    IF identifiers = <<>> THEN <<>>
    ELSE Resolved(Head(identifiers)) \o ResolvedAll(Tail(identifiers))

\* the influences the stored sections of one name resolve to, in file order
RECURSIVE ResolvedFor(_, _)
ResolvedFor(sections, name) ==
    IF sections = <<>> THEN <<>>
    ELSE (IF Head(sections).name = name THEN ResolvedAll(Head(sections).influences)
          ELSE <<>>) \o ResolvedFor(Tail(sections), name)

\* the connections of a section in pointsOfBounds order
Connected(n, i) ==
    LET pob == inputs[n][i].pointsOfBounds
    IN  [k \in 1 .. Cardinality(DOMAIN pob) |-> pob[Ascending(DOMAIN pob)[k]]]

\* C16: the node deserialise creates has one section for every stored
\* section, and the section a stored name denotes is connected to exactly the
\* objects the stored identifiers of that name resolve to, in file order: an
\* identifier that resolves to nothing is left out, those after it and the
\* sections after it are still loaded
C16_UnresolvedInfluencesAreSkipped ==
    lastCall.op = "deserialise" =>
        LET n == lastCall.node
            data == file[1]
        IN  /\ Cardinality(DOMAIN inputs[n]) = Len(data.sections)
            /\ \A k \in DOMAIN data.sections :
                  LET name == data.sections[k].name
                  IN  /\ Carriers(n, name) # {}
                      /\ Connected(n, CHOOSE i \in Carriers(n, name) :
                                         \A j \in Carriers(n, name) : i <= j)
                           = ResolvedFor(data.sections, name)

\* a file was loaded whose first section names an unresolvable influence
\* before one found under a namespace, followed by a section with an
\* influence of this scene
C16_Witness ==
    /\ lastCall.op = "deserialise"
    /\ Len(file[1].sections) = 2
    /\ file[1].sections[1].name = "a"
    /\ file[1].sections[1].influences = <<"rig:ghost", "z">>
    /\ file[1].sections[2].name = "b"
    /\ file[1].sections[2].influences = <<"rig:x">>
    /\ Connected(lastCall.node, 0) = <<"ns:z">>
    /\ Connected(lastCall.node, 1) = <<"x">>

----------------------------------------------------------------------------
(* Properties of the mutators by name (SpecMutators) *)

Mutators ==
    {"set_section_name", "set_section_weight", "add_section_influence",
     "remove_section_influence", "remove_mass_group"}

\* C19: a mutator called with a section name that no section of the node
\* carries leaves `inputs` of every node as it was: no name, weight or
\* connection changes and no element is created
C19_UnresolvedMutatorsAreNoOps ==
    [][(/\ lastCall'.op \in Mutators
        /\ Carriers(lastCall'.node, lastCall'.args[1]) = {})
       => inputs' = inputs]_vars


----------------------------------------------------------------------------
(* Properties of the widget's script jobs (SpecWidgets) *)

\* C26: after construction and after every show and hide event, each widget
\* holds no job number or two, the two being live jobs of the host for
\* NewSceneOpened and SceneOpened, and the host's live jobs that call the
\* widget are the ones it holds; a show event of a widget that holds jobs
\* registers nothing; after a hide event the widget's list is empty and no
\* live job calls it
C26_ScriptJobsZeroOrTwo ==
    [][/\ \A widget \in DOMAIN scriptJobIDs' :
            LET ids == scriptJobIDs'[widget]
            IN  /\ Len(ids) \in {0, 2}
                /\ Len(ids) = 2 =>
                      /\ ids[1] # ids[2]
                      /\ scriptJobs'[ids[1]] = [event |-> "NewSceneOpened", owner |-> widget]
                      /\ scriptJobs'[ids[2]] = [event |-> "SceneOpened", owner |-> widget]
                /\ {j \in DOMAIN scriptJobs' : scriptJobs'[j].owner = widget} = Range(ids)
       /\ (lastCall'.op = "showEvent" /\ scriptJobIDs[lastCall'.node] # <<>>)
            => UNCHANGED widgetVars
       /\ lastCall'.op = "hideEvent"
            => /\ scriptJobIDs'[lastCall'.node] = <<>>
               /\ \A j \in DOMAIN scriptJobs' : scriptJobs'[j].owner # lastCall'.node
      ]_vars

\* a widget that was hidden is shown again and holds two new jobs while the
\* other widget holds its own
C26_Witness ==
    /\ lastCall.op = "showEvent"
    /\ Len(scriptJobIDs[lastCall.node]) = 2
    /\ \E j \in 0 .. (scriptJobIDs[lastCall.node][1] - 1) : j \notin DOMAIN scriptJobs
    /\ Cardinality(DOMAIN scriptJobs) = 4

====
